---- MODULE Spec2Model ----
(***************************************************************************)
(* Model of rl_agents/agents/budgeted_ftq/budgeted_utils.py:               *)
(*   compute_convex_hull_from_values  (dominance filter, rounding and      *)
(*       de-duplication, convex hull, walk over the top of the hull)       *)
(*   optimal_mixture                  (mixture of two frontier points)     *)
(*                                                                         *)
(* Python lists are sequences; a Python index i is the element i + 1.      *)
(* qc and qr are integers counted in half units of the last rounded digit, *)
(* so that np.round is the map Round below and not the identity.           *)
(* A list indexed by an index array (points[indices], points[vertices]) is *)
(* read as the selection of the elements at these indices.                 *)
(* n_actions is read as half the number of columns of values.              *)
(***************************************************************************)
EXTENDS Integers, Sequences, FiniteSets

VARIABLES pc, values, hull_options, clamp_qc, ret, hull, beta, mix

vars == <<pc, values, hull_options, clamp_qc, ret, hull, beta, mix>>

\* ------------------------------------------------------------- bounds
MaxPoints == 3
MaxQc == 2
MaxQr == 1
MaxHull == 3
MaxCost == 4

\* ------------------------------------------------------------- data
HullPoint(a, b, c, r) == [action |-> a, budget |-> b, qc |-> c, qr |-> r]

NoPoint == HullPoint(-1, -1, -1, -1)

Mixture(i, s, p, st) == [inf |-> i, sup |-> s, probability_sup |-> p, status |-> st]

Range(s) == {s[i] : i \in 1..Len(s)}

Min2(a, b) == IF a < b THEN a ELSE b

Max2(a, b) == IF a > b THEN a ELSE b

\* ------------------------------------------------------------- lines 28-37
\* np.clip of the cost columns
Clamp(vals, n_actions, clamp) ==
    IF clamp = <<>> THEN vals
    ELSE [b \in DOMAIN vals |->
            [c \in DOMAIN vals[b] |->
                IF c > n_actions
                THEN Min2(Max2(vals[b][c], clamp[1]), clamp[2])
                ELSE vals[b][c]]]

\* one HullPoint per (budget, action), budgets outermost
ExtractPoints(vals, n_actions) ==
    [k \in 1..(Len(vals) * n_actions) |->
        LET i_b == (k - 1) \div n_actions
            i_a == (k - 1) % n_actions
        IN HullPoint(i_a, i_b, vals[i_b + 1][i_a + n_actions + 1], vals[i_b + 1][i_a + 1])]

\* Python's max(points, key=qr): the first element whose key is the largest
RECURSIVE MaxByQr(_, _, _)
MaxByQr(points, i, best) ==
    IF i > Len(points) THEN best
    ELSE MaxByQr(points, i + 1, IF points[i].qr > best.qr THEN points[i] ELSE best)

PyMaxQr(points) == MaxByQr(points, 2, points[1])

\* Python's min(points, key=qr): the first element whose key is the smallest
RECURSIVE MinByQr(_, _, _)
MinByQr(points, i, best) ==
    IF i > Len(points) THEN best
    ELSE MinByQr(points, i + 1, IF points[i].qr < best.qr THEN points[i] ELSE best)

PyMinQr(points) == MinByQr(points, 2, points[1])

\* a filter that keeps the points as costly as max_point
Dominated_strict(point, max_point) == point.qr < max_point.qr /\ point.qc > max_point.qc

Dominated(point, max_point) == point.qr < max_point.qr /\ point.qc >= max_point.qc

FilterDominated(points) ==
    LET max_point == PyMaxQr(points)
        keep(point) == ~Dominated(point, max_point)
    IN SelectSeq(points, keep)

\* ------------------------------------------------------------- lines 39-45
\* np.round to the last digit: round half to even, in half units
Round(v) ==
    IF v % 2 = 0 THEN v
    ELSE IF ((v - 1) \div 2) % 2 = 0 THEN v - 1 ELSE v + 1

\* line 40: one (qc, qr) row per point
CostRewardRows(points) == [i \in 1..Len(points) |-> <<points[i].qc, points[i].qr>>]

\* line 42: np.round applied to the points themselves, one 4-column row per point
RoundedRows(points) ==
    [i \in 1..Len(points) |->
        <<points[i].action, points[i].budget, Round(points[i].qc), Round(points[i].qr)>>]

PointValues(points, options) ==
    IF options.decimals /= 0 THEN RoundedRows(points) ELSE CostRewardRows(points)

RECURSIVE LexLess(_, _, _)
LexLess(r, s, i) ==
    IF i > Len(r) THEN FALSE
    ELSE IF r[i] /= s[i] THEN r[i] < s[i]
    ELSE LexLess(r, s, i + 1)

RECURSIVE SortRows(_)
SortRows(rows) ==
    IF rows = {} THEN <<>>
    ELSE LET least == CHOOSE r \in rows : \A s \in rows \ {r} : LexLess(r, s, 1)
         IN <<least>> \o SortRows(rows \ {least})

FirstIndex(rows, r) == CHOOSE i \in 1..Len(rows) : rows[i] = r /\ \A j \in 1..(i - 1) : rows[j] /= r

\* np.unique(point_values, axis=0, return_index=True): the distinct rows in
\* lexicographic order, and for each the Python index of its first occurrence
Unique(rows) ==
    LET sorted == SortRows(Range(rows))
    IN [point_values |-> sorted,
        indices |-> [k \in 1..Len(sorted) |-> FirstIndex(rows, sorted[k]) - 1]]

\* points[indices]
Take(points, indices) == [k \in 1..Len(indices) |-> points[indices[k] + 1]]

Dedup(points, options) ==
    LET point_values == PointValues(points, options)
    IN IF options.remove_duplicated_points
       THEN LET u == Unique(point_values)
            IN [point_values |-> u.point_values, points |-> Take(points, u.indices)]
       ELSE [point_values |-> point_values, points |-> points]

\* ------------------------------------------------------------- lines 47-62
\* a hull attempted from two points on
EnoughPoints_two(points) == Len(points) >= 2

\* line 50
EnoughPoints(points) == Len(points) >= 3

\* the two coordinates a planar hull reads of each row
XY(rows) == [i \in 1..Len(rows) |-> <<rows[i][1], rows[i][2]>>]

Cross(o, a, b) == (a[1] - o[1]) * (b[2] - o[2]) - (a[2] - o[2]) * (b[1] - o[1])

AllCollinear(xy) ==
    \A i, j, k \in 1..Len(xy) : Cross(xy[i], xy[j], xy[k]) = 0

InSegment(p, a, b) ==
    /\ Cross(a, b, p) = 0
    /\ Min2(a[1], b[1]) <= p[1] /\ p[1] <= Max2(a[1], b[1])
    /\ Min2(a[2], b[2]) <= p[2] /\ p[2] <= Max2(a[2], b[2])

InTriangle(p, a, b, c) ==
    /\ Cross(a, b, c) /= 0
    /\ \/ Cross(a, b, p) >= 0 /\ Cross(b, c, p) >= 0 /\ Cross(c, a, p) >= 0
       \/ Cross(a, b, p) <= 0 /\ Cross(b, c, p) <= 0 /\ Cross(c, a, p) <= 0

\* the corners of the convex hull of a set of planar coordinates
Extreme(S) ==
    {p \in S : \A a, b \in S \ {p} :
        /\ ~InSegment(p, a, b)
        /\ \A c \in S \ {p} : ~InTriangle(p, a, b, c)}

\* the corner after p, counter-clockwise: every corner is on the left of p -> q
Succ(E, p) ==
    IF E = {p} THEN p
    ELSE CHOOSE q \in E \ {p} : \A r \in E : Cross(p, q, r) >= 0

RECURSIVE CCWFrom(_, _, _)
CCWFrom(E, p, n) == IF n = 0 THEN <<>> ELSE <<p>> \o CCWFrom(E, Succ(E, p), n - 1)

\* the Python indices of the rows lying on the corners cs, one row per corner
IndicesOf(xy, cs) ==
    {v \in [1..Len(cs) -> 0..(Len(xy) - 1)] : \A k \in 1..Len(cs) : xy[v[k] + 1] = cs[k]}

\* hull vertices in counter-clockwise order, from any first corner
CCWVertices(xy) ==
    LET E == Extreme(Range(xy))
    IN UNION {IndicesOf(xy, CCWFrom(E, p, Cardinality(E))) : p \in E}

RECURSIVE Ascending(_)
Ascending(S) ==
    IF S = {} THEN <<>>
    ELSE LET least == CHOOSE i \in S : \A j \in S : i <= j
         IN <<least>> \o Ascending(S \ {least})

QhullError == [raised |-> TRUE, vertices |-> <<>>]

HullOf(v) == [raised |-> FALSE, vertices |-> v]

\* scipy.spatial.ConvexHull(point_values).vertices, or QhullError.  Planar rows:
\* the corners counter-clockwise, QhullError when the rows span no area.  Rows
\* of d > 2 columns: QhullError below d + 1 rows, else QhullError or the
\* vertices in ascending order (any set large enough to span).
ConvexHull(point_values) ==
    LET d == Len(point_values[1])
        n == Len(point_values)
    IN IF d = 2
       THEN IF AllCollinear(point_values) THEN {QhullError}
            ELSE {HullOf(v) : v \in CCWVertices(point_values)}
       ELSE IF n < d + 1 THEN {QhullError}
            ELSE {QhullError} \cup
                 {HullOf(Ascending(S)) : S \in {T \in SUBSET (0..(n - 1)) : Cardinality(T) >= d + 1}}

\* convex_hull_graham(point_values.tolist()), each vertex mapped back to the
\* index of its row (line 60): a planar scan of the first two columns
convex_hull_graham(point_values) == CCWVertices(XY(point_values))

\* ------------------------------------------------------------- lines 64-80
\* lines 68-70: index of the point the walk starts at
StartIndex(points) ==
    LET point_max_qr == PyMaxQr(points)
        tied(p) == p.qr = point_max_qr.qr
        point_max_qr_min_qc == PyMinQr(SelectSeq(points, tied))
    IN (CHOOSE i \in 1..Len(points) :
            /\ points[i] = point_max_qr_min_qc
            /\ \A j \in 1..(i - 1) : points[j] /= point_max_qr_min_qc) - 1

\* line 74: the index appended at step k
WalkIndex(start, k, n) == start + k

\* a walk that goes on over equal costs
StopWalk_strict(next, current) == next.qc > current.qc

\* line 75: the walk stops when the cost no longer decreases
StopWalk(next, current) == next.qc >= current.qc

\* lines 72-76: for k in range(len(vertices))
RECURSIVE Walk(_, _, _, _, _)
Walk(points, start, k, selected, reads) ==
    LET n == Len(points)
        i == WalkIndex(start, k, n)
    IN IF k >= n THEN [error |-> FALSE, selected |-> selected, reads |-> reads]
       ELSE IF i \notin 0..(n - 1)
            THEN [error |-> TRUE, selected |-> selected, reads |-> Append(reads, i)]
            ELSE IF StopWalk(points[((start + k + 1) % n) + 1], points[((start + k) % n) + 1])
                 THEN [error |-> FALSE, selected |-> Append(selected, points[i + 1]),
                       reads |-> Append(reads, i)]
                 ELSE Walk(points, start, k + 1, Append(selected, points[i + 1]), Append(reads, i))

\* sorted(points, key=qc): stable
RECURSIVE SortByQc(_)
SortByQc(points) ==
    IF points = <<>> THEN <<>>
    ELSE LET n == Len(points)
             front == SortByQc(SubSeq(points, 1, n - 1))
             last == points[n]
             le(p) == p.qc <= last.qc
             gt(p) == p.qc > last.qc
         IN SelectSeq(front, le) \o <<last>> \o SelectSeq(front, gt)

Reversed(s) == [i \in 1..Len(s) |-> s[Len(s) + 1 - i]]

\* ------------------------------------------------------------- lines 17-80
\* what one call leaves behind: the returned tuple (or the exception raised)
\* and the values the call went through
Result(status, points, colinearity, true_colinearity, exception, trace) ==
    [status |-> status, points |-> points, colinearity |-> colinearity,
     true_colinearity |-> true_colinearity, exception |-> exception,
     all_points |-> trace.all_points, filtered |-> trace.filtered,
     deduped |-> trace.deduped, vertices |-> trace.vertices,
     hull_points |-> trace.hull_points, start |-> trace.start, reads |-> trace.reads]

NoResult ==
    Result("none", <<>>, FALSE, FALSE, FALSE,
           [all_points |-> <<>>, filtered |-> <<>>, deduped |-> <<>>, vertices |-> <<>>,
            hull_points |-> <<>>, start |-> -1, reads |-> <<>>])

\* lines 64-80 once the hull stage is over
UpperHull(trace, hullres) ==
    IF hullres.raised
    THEN {Result("returned", SortByQc(trace.deduped), TRUE, FALSE, TRUE, trace)}
    ELSE LET points == Take(trace.deduped, hullres.vertices)
             start == StartIndex(points)
             w == Walk(points, start, 0, <<>>, <<>>)
             t == [trace EXCEPT !.vertices = hullres.vertices, !.hull_points = points,
                                !.start = start, !.reads = w.reads]
         IN IF w.error
            THEN {Result("IndexError", <<>>, FALSE, FALSE, FALSE, t)}
            ELSE {Result("returned", Reversed(w.selected), FALSE, FALSE, FALSE, t)}

\* every outcome of compute_convex_hull_from_values(values, betas, hull_options, clamp_qc)
ComputeConvexHullFromValues(vals, options, clamp) ==
    LET n_actions == Len(vals[1]) \div 2
        all_points == ExtractPoints(Clamp(vals, n_actions, clamp), n_actions)
        filtered == FilterDominated(all_points)
        d == Dedup(filtered, options)
        trace == [all_points |-> all_points, filtered |-> filtered, deduped |-> d.points,
                  vertices |-> <<>>, hull_points |-> <<>>, start |-> -1, reads |-> <<>>]
    IN IF EnoughPoints(d.points)
       THEN IF options.library = "scipy"
            THEN UNION {UpperHull(trace, h) : h \in ConvexHull(d.point_values)}
            ELSE IF ~options.remove_duplicated_points
                 THEN {Result("AssertionError", <<>>, FALSE, FALSE, FALSE, trace)}
                 ELSE UNION {UpperHull(trace, HullOf(v)) : v \in convex_hull_graham(d.point_values)}
       ELSE {Result("returned", SortByQc(d.points), TRUE, TRUE, FALSE, trace)}

\* ------------------------------------------------------------- inputs
\* a value grid: one row per budget, n_actions reward columns then n_actions cost columns
ValueGrids(n_betas, n_actions) ==
    {[b \in 1..n_betas |->
        [c \in 1..(2 * n_actions) |-> IF c <= n_actions THEN r[b][c] ELSE q[b][c - n_actions]]] :
     r \in [1..n_betas -> [1..n_actions -> 0..MaxQr]],
     q \in [1..n_betas -> [1..n_actions -> 0..MaxQc]]}

Shapes == {s \in (1..MaxPoints) \X (1..MaxPoints) : s[1] * s[2] <= MaxPoints}

HullOptions ==
    [decimals : {0, 1}, remove_duplicated_points : BOOLEAN, library : {"scipy", "pure_python"}]

ClampChoices == {<<>>, <<1, 1>>}

\* ------------------------------------------------------------- the hull calls
Init ==
    /\ pc = "call"
    /\ \E s \in Shapes : values \in ValueGrids(s[1], s[2])
    /\ hull_options \in HullOptions
    /\ clamp_qc \in ClampChoices
    /\ ret = NoResult
    /\ hull = <<>>
    /\ beta = 0
    /\ mix = [raised |-> "none", returned |-> FALSE,
              mixture |-> Mixture(NoPoint, NoPoint, <<0, 1>>, "none")]

compute_convex_hull_from_values ==
    /\ pc = "call"
    /\ ret' \in ComputeConvexHullFromValues(values, hull_options, clamp_qc)
    /\ pc' = "done"
    /\ UNCHANGED <<values, hull_options, clamp_qc, hull, beta, mix>>

Next == compute_convex_hull_from_values

Spec == Init /\ [][Next]_vars

\* ------------------------------------------------------------- lines 103-123
\* what one call of optimal_mixture leaves behind: the Mixture returned, or the
\* exception raised and no Mixture
Returned(m) == [raised |-> "none", returned |-> TRUE, mixture |-> m]

Raised(e) == [raised |-> e, returned |-> FALSE, mixture |-> Mixture(NoPoint, NoPoint, <<0, 1>>, "none")]

\* no emptiness check
IsEmpty_never(h) == FALSE

\* line 114: not hull
IsEmpty(h) == h = <<>>

\* a bracket closed on the right
Bracket_closed(inf, sup, b) == inf.qc <= b /\ b <= sup.qc

\* a bracket open on the left
Bracket_open(inf, sup, b) == inf.qc < b /\ b < sup.qc

\* line 117
Bracket(inf, sup, b) == inf.qc <= b /\ b < sup.qc

\* a weight taken over sup.qc alone
ProbabilitySup_sup(inf, sup, b) == <<b - inf.qc, sup.qc>>

\* line 118: (beta - inf.qc) / (sup.qc - inf.qc), as numerator and denominator
ProbabilitySup(inf, sup, b) == <<b - inf.qc, sup.qc - inf.qc>>

\* lines 119-123: no pair brackets beta
Boundary(h, b) ==
    IF Len(h) = 0 THEN Raised("IndexError")
    ELSE IF b < h[1].qc
         THEN Returned(Mixture(h[1], h[1], <<0, 1>>, "not_solvable"))
         ELSE Returned(Mixture(h[Len(h)], h[Len(h)], <<1, 1>>, "too_much_budget"))

\* lines 116-118: for inf, sup in zip(hull[:-1], hull[1:])
RECURSIVE Scan(_, _, _)
Scan(h, b, i) ==
    IF i + 1 > Len(h) THEN Boundary(h, b)
    ELSE IF Bracket(h[i], h[i + 1], b)
         THEN LET p == ProbabilitySup(h[i], h[i + 1], b)
              IN IF p[2] = 0 THEN Raised("ZeroDivisionError")
                 ELSE Returned(Mixture(h[i], h[i + 1], p, "regular"))
         ELSE Scan(h, b, i + 1)

OptimalMixture(h, b) ==
    IF IsEmpty(h) THEN Raised("Hull is empty") ELSE Scan(h, b, 1)

\* frontiers handed to optimal_mixture: any list of points, in any order of cost
Frontiers ==
    UNION {{[i \in 1..n |-> HullPoint(0, i - 1, c[i], i - 1)] : c \in [1..n -> 0..MaxCost]} :
           n \in 0..MaxHull}

Budgets == (0 - 1)..(MaxCost + 1)

InitMixture ==
    /\ pc = "call"
    /\ values = <<>>
    /\ hull_options = [decimals |-> 0, remove_duplicated_points |-> FALSE, library |-> "scipy"]
    /\ clamp_qc = <<>>
    /\ ret = NoResult
    /\ hull \in Frontiers
    /\ beta \in Budgets
    /\ mix = Raised("none")

optimal_mixture ==
    /\ pc = "call"
    /\ mix' = OptimalMixture(hull, beta)
    /\ pc' = "done"
    /\ UNCHANGED <<values, hull_options, clamp_qc, ret, hull, beta>>

NextMixture == optimal_mixture

SpecMixture == InitMixture /\ [][NextMixture]_vars

\* ------------------------------------------------------------- properties
Ascends(h) == \A i \in 1..(Len(h) - 1) : h[i].qc <= h[i + 1].qc

StrictlyAscends(h) == \A i \in 1..(Len(h) - 1) : h[i].qc < h[i + 1].qc

Brackets(h, b, i) == h[i].qc <= b /\ b < h[i + 1].qc

\* C1: a mixture of status regular has expected cost exactly the target budget:
\* inf.qc * (1 - p) + sup.qc * p = beta with p = probability_sup, in rationals
\* (p = num / den, the identity multiplied by den).
C1_ExpectedCostIsBudget ==
    (pc = "done" /\ mix.returned /\ mix.mixture.status = "regular") =>
        LET m == mix.mixture
            num == m.probability_sup[1]
            den == m.probability_sup[2]
        IN /\ den /= 0
           /\ m.inf.qc * (den - num) + m.sup.qc * num = beta * den

C1_Witness ==
    /\ pc = "done" /\ mix.returned /\ mix.mixture.status = "regular"
    /\ mix.mixture.probability_sup[1] > 0
    /\ mix.mixture.inf.qc > 0

\* C2: on a non-empty frontier ascending by cost (one point included), a budget
\* below the first cost gives not_solvable, probability_sup 0 and inf = sup =
\* the first point; a budget at or above the last cost gives too_much_budget,
\* probability_sup 1 and inf = sup = the last point.
C2_BoundaryStatuses ==
    (pc = "done" /\ hull /= <<>> /\ Ascends(hull)) =>
        /\ beta < hull[1].qc =>
              /\ mix.returned
              /\ mix.mixture = Mixture(hull[1], hull[1], <<0, 1>>, "not_solvable")
        /\ beta >= hull[Len(hull)].qc =>
              /\ mix.returned
              /\ mix.mixture = Mixture(hull[Len(hull)], hull[Len(hull)], <<1, 1>>, "too_much_budget")

C2_Witness ==
    /\ pc = "done" /\ Len(hull) = 1 /\ beta < hull[1].qc
    /\ mix.returned /\ mix.mixture.status = "not_solvable"

\* C3: on a frontier ascending by cost (equal adjacent costs allowed) and a
\* budget from the first cost up to, not including, the last, the result is
\* regular, (inf, sup) is the first adjacent pair with inf.qc <= beta < sup.qc,
\* sup.qc > inf.qc, the division has a non-zero denominator and
\* 0 <= probability_sup < 1.
C3_RegularBracket ==
    (pc = "done" /\ hull /= <<>> /\ Ascends(hull)
        /\ hull[1].qc <= beta /\ beta < hull[Len(hull)].qc) =>
        LET m == mix.mixture
            num == m.probability_sup[1]
            den == m.probability_sup[2]
        IN /\ mix.returned
           /\ m.status = "regular"
           /\ \E i \in 1..(Len(hull) - 1) :
                 /\ m.inf = hull[i] /\ m.sup = hull[i + 1]
                 /\ Brackets(hull, beta, i)
                 /\ \A j \in 1..(i - 1) : ~Brackets(hull, beta, j)
           /\ m.sup.qc > m.inf.qc
           /\ den > 0 /\ 0 <= num /\ num < den

\* costs 0, 0.5, 1 and budget 0.25, counted in quarters
C3_Witness ==
    /\ pc = "done" /\ Len(hull) = 3 /\ beta = 1
    /\ hull[1].qc = 0 /\ hull[2].qc = 2 /\ hull[3].qc = 4
    /\ mix.returned /\ mix.mixture.status = "regular"
    /\ mix.mixture.inf = hull[1] /\ mix.mixture.sup = hull[2]
    /\ 2 * mix.mixture.probability_sup[1] = mix.mixture.probability_sup[2]

\* C7: on an empty frontier optimal_mixture raises "Hull is empty" whatever the
\* budget and returns no Mixture; no boundary or bracketing case is evaluated.
C7_EmptyHullRaises ==
    (pc = "done" /\ hull = <<>>) =>
        /\ mix.raised = "Hull is empty"
        /\ ~mix.returned
        /\ mix.mixture.status = "none"

C7_Witness == pc = "done" /\ hull = <<>> /\ beta > 0 /\ mix.raised = "Hull is empty"

Walked == pc = "done" /\ ret.hull_points /= <<>>

\* C8: the walk reads the vertex appended at step k at index (start + k) mod N,
\* never outside 0..N-1, and ends having appended at most N vertices.
C8_WalkIndexInRange ==
    Walked =>
        LET n == Len(ret.hull_points)
        IN /\ ret.status = "returned"
           /\ Len(ret.reads) <= n
           /\ \A k \in 1..Len(ret.reads) :
                 /\ ret.reads[k] = (ret.start + k - 1) % n
                 /\ ret.reads[k] \in 0..(n - 1)

\* C9: the walk starts at a hull vertex of largest reward, and among the
\* vertices of that reward at one of smallest cost.
C9_StartMaxRewardMinCost ==
    Walked =>
        LET s == ret.hull_points[ret.start + 1]
        IN \A i \in 1..Len(ret.hull_points) :
              LET p == ret.hull_points[i]
              IN p.qr <= s.qr /\ (p.qr = s.qr => s.qc <= p.qc)

RoundedPair(p, options) ==
    IF options.decimals /= 0 THEN <<Round(p.qc), Round(p.qr)>> ELSE <<p.qc, p.qr>>

\* C10: with remove_duplicated_points the de-duplication leaves one point per
\* distinct rounded (qc, qr) pair, the first input point of that pair whatever
\* its action and budget, in the order of these first occurrences.
C10_DedupKeepsFirstOccurrences ==
    (pc = "done" /\ hull_options.remove_duplicated_points) =>
        LET F == ret.filtered
            firsts == Ascending({i \in 1..Len(F) :
                         \A j \in 1..(i - 1) :
                            RoundedPair(F[j], hull_options) /= RoundedPair(F[i], hull_options)})
        IN ret.deduped = [k \in 1..Len(firsts) |-> F[firsts[k]]]

====
